---------------------------- MODULE Spec2Model ----------------------------
(***************************************************************************)
(* A model of spano's planar warp algebra (struct Mapping, src/warps.rs)   *)
(* and of its bilinear resampler (Mapping::warp_array3_into), together     *)
(* with the panorama loop of src/main.rs that drives the resampler.        *)
(*                                                                         *)
(* Numbers.  The program computes in f32.  The model computes in exact     *)
(* rationals <<n, d>> (d > 0, lowest terms): every value the bounded       *)
(* inputs below produce is exactly representable, and f32 rounding is not  *)
(* modelled.                                                               *)
(***************************************************************************)
EXTENDS Integers, Sequences, FiniteSets, TLC

VARIABLES
    call,    \* the operation invoked last, with its arguments
    ret,     \* what that operation returned
    out,     \* the caller-owned output buffer, flat HWC (main.rs: canvas)
    valid,   \* the caller-owned validity mask, flat HW
    odim,    \* <<out_h, out_w, out_c>>, the shape of out
    hist,    \* the resampler calls completed on out, oldest first
    todo     \* destination indices whose per-pixel task has not run yet

vars == <<call, ret, out, valid, odim, hist, todo>>

-----------------------------------------------------------------------------
(* Exact rational arithmetic standing for f32 arithmetic.                   *)

Abs(a) == IF a < 0 THEN -a ELSE a

RECURSIVE GCD(_, _)
GCD(a, b) == IF b = 0 THEN a ELSE GCD(b, a % b)

Rat(n, d) ==
    LET s == IF d < 0 THEN -1 ELSE 1
        g == GCD(Abs(n), Abs(d))
    IN  <<(s * n) \div g, (s * d) \div g>>

I2R(n) == <<n, 1>>

R0 == I2R(0)

R1 == I2R(1)

\* (two integers need no reduction to lowest terms)
RAdd(a, b) ==
    IF a[2] = 1 /\ b[2] = 1 THEN <<a[1] + b[1], 1>>
    ELSE LET g == GCD(a[2], b[2])
         IN  Rat(a[1] * (b[2] \div g) + b[1] * (a[2] \div g),
                 (a[2] \div g) * b[2])

RSub(a, b) == RAdd(a, <<-b[1], b[2]>>)

\* common factors are taken out before the products are formed
RMul(a, b) ==
    IF a[2] = 1 /\ b[2] = 1 THEN <<a[1] * b[1], 1>>
    ELSE LET g == GCD(Abs(a[1]), b[2])
             h == GCD(Abs(b[1]), a[2])
         IN  Rat((a[1] \div g) * (b[1] \div h), (a[2] \div h) * (b[2] \div g))

RDiv(a, b) == RMul(a, Rat(b[2], b[1]))

RNeg(a) == <<-a[1], a[2]>>

\* Comparison by integer part first and then, the fractions being x and y,
\* by 1/y <= 1/x, so that a comparison against 1e-8 stays within the 32-bit
\* integers of the model checker.
RECURSIVE RLe(_, _)
RLe(a, b) ==
    LET fa == a[1] \div a[2]
        fb == b[1] \div b[2]
        ra == a[1] - fa * a[2]
        rb == b[1] - fb * b[2]
    IN  IF fa # fb THEN fa < fb
        ELSE IF ra = 0 THEN TRUE
        ELSE IF rb = 0 THEN FALSE
        ELSE RLe(<<b[2], rb>>, <<a[2], ra>>)

RLt(a, b) == ~RLe(b, a)

RMax(a, b) == IF RLe(a, b) THEN b ELSE a

RMin(a, b) == IF RLe(a, b) THEN a ELSE b

\* f32::floor, as a rational
RFloor(a) == I2R(a[1] \div a[2])

\* `as usize` of a non-negative integral float
R2I(a) == a[1] \div a[2]

Min(a, b) == IF a <= b THEN a ELSE b

\* the sequence <<F(lo), ..., F(hi)>>, built element by element
RECURSIVE SeqFrom(_, _, _)
SeqFrom(F(_), lo, hi) ==
    IF lo > hi THEN <<>>
    ELSE IF lo = hi THEN <<F(lo)>>
    ELSE SeqFrom(F, lo, (lo + hi) \div 2) \o SeqFrom(F, (lo + hi) \div 2 + 1, hi)

\* the sequence <<F(1), ..., F(n)>>
SeqOf(F(_), n) == SeqFrom(F, 1, n)

\* F(x) with x computed before F is entered, as a Rust `let` or argument is
Strict(F(_), x) == CHOOSE r \in {F(v) : v \in {x}} : TRUE

-----------------------------------------------------------------------------
(* 3x3 matrices, row-major as in Array2::into_raw_vec: entry (i, j), both   *)
(* counted from 0, is element 3*i + j + 1 of the sequence.                  *)

At(m, i, j) == m[3 * i + j + 1]

Eye3 == <<R1, R0, R0, R0, R1, R0, R0, R0, R1>>

\* entry (i, j) of the product a . b
DotAt(a, b, i, j) ==
    RAdd(RAdd(RMul(At(a, i, 0), At(b, 0, j)),
              RMul(At(a, i, 1), At(b, 1, j))),
         RMul(At(a, i, 2), At(b, 2, j)))

\* ArrayBase::dot of two 3x3 matrices
Dot(a, b) ==
    << DotAt(a, b, 0, 0), DotAt(a, b, 0, 1), DotAt(a, b, 0, 2),
       DotAt(a, b, 1, 0), DotAt(a, b, 1, 1), DotAt(a, b, 1, 2),
       DotAt(a, b, 2, 0), DotAt(a, b, 2, 1), DotAt(a, b, 2, 2) >>

Det(m) ==
    RAdd(RSub(RMul(At(m, 0, 0), RSub(RMul(At(m, 1, 1), At(m, 2, 2)),
                                      RMul(At(m, 1, 2), At(m, 2, 1)))),
              RMul(At(m, 0, 1), RSub(RMul(At(m, 1, 0), At(m, 2, 2)),
                                      RMul(At(m, 1, 2), At(m, 2, 0))))),
         RMul(At(m, 0, 2), RSub(RMul(At(m, 1, 0), At(m, 2, 1)),
                                 RMul(At(m, 1, 1), At(m, 2, 0)))))

\* the cofactor of entry (i, j): rows and columns taken cyclically
Cofactor(m, i, j) ==
    LET i1 == (i + 1) % 3
        i2 == (i + 2) % 3
        j1 == (j + 1) % 3
        j2 == (j + 2) % 3
    IN  RSub(RMul(At(m, i1, j1), At(m, i2, j2)),
             RMul(At(m, i1, j2), At(m, i2, j1)))

\* ndarray_linalg's Inverse::inv on a non-singular matrix
Inv(m) ==
    LET d == Det(m)
    IN  << RDiv(Cofactor(m, 0, 0), d), RDiv(Cofactor(m, 1, 0), d),
           RDiv(Cofactor(m, 2, 0), d),
           RDiv(Cofactor(m, 0, 1), d), RDiv(Cofactor(m, 1, 1), d),
           RDiv(Cofactor(m, 2, 1), d),
           RDiv(Cofactor(m, 0, 2), d), RDiv(Cofactor(m, 1, 2), d),
           RDiv(Cofactor(m, 2, 2), d) >>

Invertible(m) == Det(m) # R0

-----------------------------------------------------------------------------
(* enum TransformationType and struct Mapping                               *)

TransformationType ==
    {"Identity", "Translational", "Affine", "Projective", "Unknown"}

num_params(kind) ==
    CASE kind = "Identity"      -> 0
      [] kind = "Translational" -> 2
      [] kind = "Affine"        -> 6
      [] kind = "Projective"    -> 8
      [] kind = "Unknown"       -> 0

from_matrix(mat, kind) == [mat |-> mat, kind |-> kind]

\* Option<T>: None is the empty sequence, Some(v) the sequence holding v
NoneOpt == <<>>

Some(v) == <<v>>

\* Mapping::from_params panics on every length its match does not list
from_params_panics(params) == Len(params) \notin {0, 2, 6, 8}

\* (variant: the last slot of the projective matrix left at zero)
from_params_open(params) ==
    LET p == params
    IN  CASE Len(p) = 0 -> from_matrix(Eye3, "Identity")
          [] Len(p) = 2 ->
                from_matrix(<<R1, R0, p[1], R0, R1, p[2], R0, R0, R1>>,
                            "Translational")
          [] Len(p) = 6 ->
                from_matrix(<<RAdd(p[1], R1), p[3], p[5],
                              p[2], RAdd(p[4], R1), p[6],
                              R0, R0, R1>>, "Affine")
          [] Len(p) = 8 ->
                from_matrix(<<RAdd(p[1], R1), p[3], p[5],
                              p[2], RAdd(p[4], R1), p[6],
                              p[7], p[8], R0>>, "Projective")

\* (variant: the six leading parameters laid out row by row)
from_params_rowmajor(params) ==
    LET p == params
    IN  CASE Len(p) = 0 -> from_matrix(Eye3, "Identity")
          [] Len(p) = 2 ->
                from_matrix(<<R1, R0, p[1], R0, R1, p[2], R0, R0, R1>>,
                            "Translational")
          [] Len(p) = 6 ->
                from_matrix(<<RAdd(p[1], R1), p[2], p[3],
                              p[4], RAdd(p[5], R1), p[6],
                              R0, R0, R1>>, "Affine")
          [] Len(p) = 8 ->
                from_matrix(<<RAdd(p[1], R1), p[2], p[3],
                              p[4], RAdd(p[5], R1), p[6],
                              p[7], p[8], R1>>, "Projective")

from_params(params) ==
    LET p == params
    IN  CASE Len(p) = 0 -> from_matrix(Eye3, "Identity")
          [] Len(p) = 2 ->
                from_matrix(<<R1, R0, p[1], R0, R1, p[2], R0, R0, R1>>,
                            "Translational")
          [] Len(p) = 6 ->
                from_matrix(<<RAdd(p[1], R1), p[3], p[5],
                              p[2], RAdd(p[4], R1), p[6],
                              R0, R0, R1>>, "Affine")
          [] Len(p) = 8 ->
                from_matrix(<<RAdd(p[1], R1), p[3], p[5],
                              p[2], RAdd(p[4], R1), p[6],
                              p[7], p[8], R1>>, "Projective")

scale(x, y) == from_params(<<RSub(x, R1), R0, R0, RSub(y, R1), R0, R0>>)

shift(x, y) == from_params(<<x, y>>)

identity == from_params(<<>>)

\* the matrix divided by its bottom-right element, as a raw vector
Normalized(mat) ==
    LET w == At(mat, 2, 2)
    IN  << RDiv(mat[1], w), RDiv(mat[2], w), RDiv(mat[3], w),
           RDiv(mat[4], w), RDiv(mat[5], w), RDiv(mat[6], w),
           RDiv(mat[7], w), RDiv(mat[8], w), RDiv(mat[9], w) >>

get_params_panics(self) == self.kind = "Unknown"

get_params(self) ==
    LET p == Normalized(self.mat)
    IN  CASE self.kind = "Identity"      -> <<>>
          [] self.kind = "Translational" -> <<p[3], p[6]>>
          [] self.kind = "Affine" ->
                <<RSub(p[1], R1), p[4], p[2], RSub(p[5], R1), p[3], p[6]>>
          [] self.kind = "Projective" ->
                <<RSub(p[1], R1), p[4], p[2], RSub(p[5], R1), p[3], p[6],
                  p[7], p[8]>>

get_params_full(self) ==
    LET p == Normalized(self.mat)
    IN  <<RSub(p[1], R1), p[4], p[2], RSub(p[5], R1), p[3], p[6], p[7], p[8]>>

inverse_panics(self) == ~Invertible(self.mat)

inverse(self) == [mat |-> Inv(self.mat), kind |-> self.kind]

\* Iterator::max_by_key over kinds: of several maximal elements the LAST
\* one is returned (core::iter::Iterator::max_by_key).
RECURSIVE max_by_key(_)
max_by_key(kinds) ==
    IF Len(kinds) = 1 THEN kinds[1]
    ELSE LET best == max_by_key(SubSeq(kinds, 1, Len(kinds) - 1))
             last == kinds[Len(kinds)]
         IN  IF num_params(last) >= num_params(best) THEN last ELSE best

transform(self, lhs, rhs) ==
    LET lhs_mat  == IF lhs = NoneOpt THEN Eye3 ELSE lhs[1].mat
        lhs_kind == IF lhs = NoneOpt THEN "Unknown" ELSE lhs[1].kind
        rhs_mat  == IF rhs = NoneOpt THEN Eye3 ELSE rhs[1].mat
        rhs_kind == IF rhs = NoneOpt THEN "Unknown" ELSE rhs[1].kind
    IN  [mat  |-> Dot(Dot(lhs_mat, self.mat), rhs_mat),
         kind |-> max_by_key(<<lhs_kind, self.kind, rhs_kind>>)]

\* (variant: the kind the composition promoted to is kept)
rescale_promoted(self, s) ==
    transform(self, Some(scale(RDiv(R1, s), RDiv(R1, s))), Some(scale(s, s)))

rescale(self, s) ==
    LET map == transform(self,
                         Some(scale(RDiv(R1, s), RDiv(R1, s))),
                         Some(scale(s, s)))
    IN  [map EXCEPT !.kind = self.kind]

\* (variant: the next mapping composed from the left)
RECURSIVE accumulate_scan_lhs(_, _)
accumulate_scan_lhs(acc, xs) ==
    IF xs = <<>> THEN <<>>
    ELSE LET next == transform(acc, Some(Head(xs)), NoneOpt)
         IN  <<next>> \o accumulate_scan_lhs(next, Tail(xs))

\* Iterator::scan with the closure of accumulate
RECURSIVE accumulate_scan(_, _)
accumulate_scan(acc, xs) ==
    IF xs = <<>> THEN <<>>
    ELSE LET next == transform(acc, NoneOpt, Some(Head(xs)))
         IN  <<next>> \o accumulate_scan(next, Tail(xs))

accumulate(mappings) == accumulate_scan(identity, <<identity>> \o mappings)

\* wrt_map.inverse() runs once per element, so an empty list never panics
with_respect_to_panics(mappings, wrt_map) ==
    mappings # <<>> /\ inverse_panics(wrt_map)

\* (variant: the inverse composed from the right)
with_respect_to_rhs(mappings, wrt_map) ==
    SeqOf(LAMBDA i :
            Strict(LAMBDA inv : transform(mappings[i], NoneOpt, Some(inv)),
                   inverse(wrt_map)),
          Len(mappings))

with_respect_to(mappings, wrt_map) ==
    SeqOf(LAMBDA i :
            Strict(LAMBDA inv : transform(mappings[i], Some(inv), NoneOpt),
                   inverse(wrt_map)),
          Len(mappings))

\* 1e-8, the floor of the homogeneous divisor
Epsilon == <<1, 100000000>>

\* (variant: the homogeneous divisor used as it is)
warp_point_unfloored(self, pt) ==
    IF self.kind = "Identity" THEN pt
    ELSE LET m == self.mat
             X == RAdd(RAdd(RMul(At(m, 0, 0), pt[1]), RMul(At(m, 0, 1), pt[2])),
                       At(m, 0, 2))
             Y == RAdd(RAdd(RMul(At(m, 1, 0), pt[1]), RMul(At(m, 1, 1), pt[2])),
                       At(m, 1, 2))
             W == RAdd(RAdd(RMul(At(m, 2, 0), pt[1]), RMul(At(m, 2, 1), pt[2])),
                       At(m, 2, 2))
         IN  <<RDiv(X, W), RDiv(Y, W)>>

\* one row of Mapping::warp_points
warp_point(self, pt) ==
    IF self.kind = "Identity" THEN pt
    ELSE LET m == self.mat
             X == RAdd(RAdd(RMul(At(m, 0, 0), pt[1]), RMul(At(m, 0, 1), pt[2])),
                       At(m, 0, 2))
             Y == RAdd(RAdd(RMul(At(m, 1, 0), pt[1]), RMul(At(m, 1, 1), pt[2])),
                       At(m, 1, 2))
             W == RAdd(RAdd(RMul(At(m, 2, 0), pt[1]), RMul(At(m, 2, 1), pt[2])),
                       At(m, 2, 2))
             d == RMax(W, Epsilon)
         IN  <<RDiv(X, d), RDiv(Y, d)>>

warp_points(self, points) ==
    SeqOf(LAMBDA i : warp_point(self, points[i]), Len(points))

-----------------------------------------------------------------------------
(* Extents.  A size is <<w, h>>; a list of coordinates is never empty where *)
(* a fold over it is taken, so the fold's seed (an infinity) never shows.   *)

corners_panics(self) == inverse_panics(self)

corners(self, size) ==
    LET w == I2R(size[1])
        h == I2R(size[2])
    IN  Strict(LAMBDA inv :
                 warp_points(inv, <<<<R0, R0>>, <<w, R0>>, <<w, h>>, <<R0, h>>>>),
               inverse(self))

\* fold(f32::INFINITY, min) and fold(-f32::INFINITY, max) over a view
RECURSIVE FoldMin(_)
FoldMin(xs) ==
    IF Len(xs) = 1 THEN xs[1] ELSE RMin(FoldMin(SubSeq(xs, 1, Len(xs) - 1)), xs[Len(xs)])

RECURSIVE FoldMax(_)
FoldMax(xs) ==
    IF Len(xs) = 1 THEN xs[1] ELSE RMax(FoldMax(SubSeq(xs, 1, Len(xs) - 1)), xs[Len(xs)])

\* column j of an N x 2 array
Column(rows, j) == SeqOf(LAMBDA i : rows[i][j], Len(rows))

\* <<min_coords, max_coords>>
extent(self, size) ==
    Strict(LAMBDA c : <<<<FoldMin(Column(c, 1)), FoldMin(Column(c, 2))>>,
                        <<FoldMax(Column(c, 1)), FoldMax(Column(c, 2))>>>>,
           corners(self, size))

\* (variant: zip without cycle, the longer list cut to the shorter)
zip_cycle_truncating(maps, sizes) ==
    SeqOf(LAMBDA i : <<maps[i], sizes[i]>>, Min(Len(maps), Len(sizes)))

\* the longer list zipped with the other one cycled; cycling an empty list
\* yields nothing, and so does the zip
zip_cycle(maps, sizes) ==
    IF Len(maps) >= Len(sizes)
    THEN IF Len(sizes) = 0 THEN <<>>
         ELSE SeqOf(LAMBDA i : <<maps[i], sizes[((i - 1) % Len(sizes)) + 1]>>,
                    Len(maps))
    ELSE IF Len(maps) = 0 THEN <<>>
         ELSE SeqOf(LAMBDA i : <<maps[((i - 1) % Len(maps)) + 1], sizes[i]>>,
                    Len(sizes))

\* stack of no arrays is an Err, unwrapped; extent inverts each mapping
maximum_extent_panics(maps, sizes) ==
    LET pairs == zip_cycle(maps, sizes)
    IN  \/ \E i \in 1..Len(pairs) : corners_panics(pairs[i][1])
        \/ pairs = <<>>

\* <<extent, offset>>
maximum_extent(maps, sizes) ==
    LET pairs == zip_cycle(maps, sizes)
    IN  Strict(LAMBDA exts :
                 LET mins  == SeqOf(LAMBDA i : exts[i][1], Len(exts))
                     maxs  == SeqOf(LAMBDA i : exts[i][2], Len(exts))
                     min_coords == <<FoldMin(Column(mins, 1)),
                                     FoldMin(Column(mins, 2))>>
                     max_coords == <<FoldMax(Column(maxs, 1)),
                                     FoldMax(Column(maxs, 2))>>
                 IN  <<<<RSub(max_coords[1], min_coords[1]),
                         RSub(max_coords[2], min_coords[2])>>,
                       from_params(min_coords)>>,
               SeqOf(LAMBDA i : extent(pairs[i][1], pairs[i][2]), Len(pairs)))

-----------------------------------------------------------------------------
(* Interpolation of Mappings in parameter space.  The interpolators are     *)
(* ndarray_interp's Interp1D with the strategies Linear and CubicSpline as  *)
(* interpolate_array builds and queries them: build() is an Err, unwrapped, *)
(* on fewer rows than the strategy needs (2 and 3), on an x axis that is    *)
(* not strictly rising and on an x axis of another length than the data;    *)
(* interp_array() is an Err, unwrapped, on a query outside the x axis (no   *)
(* extrapolation is asked for); the spline is the natural one.              *)

\* Array::linspace(0.0, 1.0, n)
linspace(n) ==
    IF n = 1 THEN <<R0>> ELSE SeqOf(LAMBDA i : Rat(i - 1, n - 1), n)

StrictlyRising(ts) == \A i \in 1..(Len(ts) - 1) : RLt(ts[i], ts[i + 1])

minimum_data_length(strategy) == IF strategy = "CubicSpline" THEN 3 ELSE 2

build_panics(strategy, ts, n) ==
    \/ n < minimum_data_length(strategy)
    \/ ~StrictlyRising(ts)
    \/ Len(ts) # n

interp_panics(ts, q) == RLt(q, ts[1]) \/ RLt(ts[Len(ts)], q)

\* the interval [ts[i], ts[i+1]] q is evaluated in
interval(ts, q) ==
    CHOOSE i \in 1..(Len(ts) - 1) :
        RLe(ts[i], q) /\ (RLt(q, ts[i + 1]) \/ i = Len(ts) - 1)

\* Linear: the chord over the interval
linear_at(ts, ys, q) ==
    LET i == interval(ts, q)
    IN  RAdd(ys[i], RDiv(RMul(RSub(q, ts[i]), RSub(ys[i + 1], ys[i])),
                         RSub(ts[i + 1], ts[i])))

\* CubicSpline: the second derivatives at the knots, zero at both ends, by
\* elimination along the tridiagonal system of the interior knots.  The
\* sweep gives <<c', d'>> of row i (2 <= i <= n - 1).
RECURSIVE spline_sweep(_, _, _)
spline_sweep(ts, ys, i) ==
    LET hl == RSub(ts[i], ts[i - 1])
        hr == RSub(ts[i + 1], ts[i])
        b  == RMul(I2R(2), RAdd(hl, hr))
        d  == RMul(I2R(6), RSub(RDiv(RSub(ys[i + 1], ys[i]), hr),
                                RDiv(RSub(ys[i], ys[i - 1]), hl)))
    IN  IF i = 2 THEN <<RDiv(hr, b), RDiv(d, b)>>
        ELSE Strict(LAMBDA prev :
                      LET den == RSub(b, RMul(hl, prev[1]))
                      IN  <<RDiv(hr, den),
                            RDiv(RSub(d, RMul(hl, prev[2])), den)>>,
                    spline_sweep(ts, ys, i - 1))

RECURSIVE spline_second(_, _, _)
spline_second(ts, ys, i) ==
    IF i = 1 \/ i = Len(ts) THEN R0
    ELSE Strict(LAMBDA next :
                  Strict(LAMBDA row : RSub(row[2], RMul(row[1], next)),
                         spline_sweep(ts, ys, i)),
                spline_second(ts, ys, i + 1))

cubic_at(ts, ys, q) ==
    LET i  == interval(ts, q)
        h  == RSub(ts[i + 1], ts[i])
        dl == RSub(q, ts[i])
        dr == RSub(ts[i + 1], q)
        h6 == RMul(I2R(6), h)
    IN  Strict(LAMBDA m :
                 RAdd(RAdd(RDiv(RMul(m[1], RMul(dr, RMul(dr, dr))), h6),
                           RDiv(RMul(m[2], RMul(dl, RMul(dl, dl))), h6)),
                      RAdd(RMul(RSub(RDiv(ys[i], h),
                                     RDiv(RMul(m[1], h), I2R(6))), dr),
                           RMul(RSub(RDiv(ys[i + 1], h),
                                     RDiv(RMul(m[2], h), I2R(6))), dl))),
               <<spline_second(ts, ys, i), spline_second(ts, ys, i + 1)>>)

interp_at(strategy, ts, ys, q) ==
    IF strategy = "CubicSpline" THEN cubic_at(ts, ys, q) ELSE linear_at(ts, ys, q)

\* (variant: the spline from two knots on)
strategy_of_eager(n) == IF n >= 2 THEN "CubicSpline" ELSE "Linear"

\* the strategy interpolate_array picks for n mappings
strategy_of(n) == IF n > 2 THEN "CubicSpline" ELSE "Linear"

interpolate_array_panics(ts, maps, query) ==
    \/ build_panics(strategy_of(Len(maps)), ts, Len(maps))
    \/ \E j \in 1..Len(query) : interp_panics(ts, query[j])

interpolate_array(ts, maps, query) ==
    LET params == SeqOf(LAMBDA i : get_params_full(maps[i]), Len(maps))
        strat  == strategy_of(Len(maps))
    IN  Strict(LAMBDA cols :
                 SeqOf(LAMBDA j :
                         from_params(SeqOf(LAMBDA c :
                                             Strict(LAMBDA y : y,
                                                    interp_at(strat, ts, cols[c],
                                                              query[j])), 8)),
                       Len(query)),
               SeqOf(LAMBDA c : Column(params, c), 8))

interpolate_scalar_panics(ts, maps, query) ==
    interpolate_array_panics(ts, maps, <<query>>)

interpolate_scalar(ts, maps, query) ==
    interpolate_array(ts, maps, <<query>>)[1]

with_respect_to_idx_panics(mappings, wrt_idx) ==
    LET ts == linspace(Len(mappings))
    IN  \/ interpolate_scalar_panics(ts, mappings, wrt_idx)
        \/ Strict(LAMBDA wrt_map : with_respect_to_panics(mappings, wrt_map),
                  interpolate_scalar(ts, mappings, wrt_idx))

with_respect_to_idx(mappings, wrt_idx) ==
    Strict(LAMBDA wrt_map : with_respect_to(mappings, wrt_map),
           interpolate_scalar(linspace(Len(mappings)), mappings, wrt_idx))

accumulate_wrt_idx_panics(mappings, wrt_idx) ==
    Strict(LAMBDA acc : with_respect_to_idx_panics(acc, wrt_idx),
           accumulate(mappings))

\* (variant: the correction applied to the mappings as they were given)
accumulate_wrt_idx_given(mappings, wrt_idx) ==
    Strict(LAMBDA acc :
             Strict(LAMBDA wrt_map : with_respect_to(mappings, wrt_map),
                    interpolate_scalar(linspace(Len(acc)), acc, wrt_idx)),
           accumulate(mappings))

accumulate_wrt_idx(mappings, wrt_idx) ==
    Strict(LAMBDA acc :
             Strict(LAMBDA wrt_map : with_respect_to(acc, wrt_map),
                    interpolate_scalar(linspace(Len(acc)), acc, wrt_idx)),
           accumulate(mappings))

-----------------------------------------------------------------------------
(* The resampler, Mapping::warp_array3_into.                                *)
(*                                                                          *)
(* An (H, W, C) array is the sequence of its H*W pixel slices in row-major  *)
(* order, each slice the tuple of its C channels: slice number p + 1 is     *)
(* elements p*C .. p*C + C - 1 of the contiguous buffer, which is how the   *)
(* code addresses data (offset .. offset + data_c) and out                  *)
(* (par_chunks_mut(out_c)).  The element type T is f32, as in main.rs and   *)
(* in warp_array3_py, so T::clamp changes nothing.                          *)

MAX_CHANNELS == 8

\* Array3::zeros((h, w, c)) and Array2::from_elem((h, w), false)
zeros(h, w, c) == SeqOf(LAMBDA p : SeqOf(LAMBDA ch : R0, c), h * w)

from_elem(h, w, b) == SeqOf(LAMBDA p : b, h * w)

\* Array1::<T>::zeros(out_c)
zeros1(c) == SeqOf(LAMBDA ch : R0, c)

\* (variant: only the output's depth checked)
warp_array3_into_panics_out(out_c, data_c) == out_c > MAX_CHANNELS

warp_array3_into_panics(out_c, data_c) ==
    out_c > MAX_CHANNELS \/ data_c > MAX_CHANNELS

\* the points synthesised when none are given: row i is (i % out_w, i / out_w)
grid_points(out_h, out_w) ==
    SeqOf(LAMBDA n : <<I2R((n - 1) % out_w), I2R((n - 1) \div out_w)>>,
          out_w * out_h)

\* func when none is given: zip of dst and src, element-wise assignment
assign(dst, src) ==
    SeqOf(LAMBDA i : IF i <= Len(src) THEN src[i] ELSE dst[i], Len(dst))

\* (variant: the weight stored instead of added)
merge_overwrites(dst, src) ==
    [[dst EXCEPT ![1] = RAdd(dst[1], RMul(src[1], src[2]))]
          EXCEPT ![2] = src[2]]

\* the closure `merge` of main.rs
merge(dst, src) ==
    [[dst EXCEPT ![1] = RAdd(dst[1], RMul(src[1], src[2]))]
          EXCEPT ![2] = RAdd(dst[2], src[2])]

apply_func(func, dst, src) ==
    IF func = "merge" THEN merge(dst, src) ELSE assign(dst, src)

has_bkg(background) == background # NoneOpt

\* (variant: the range not widened by a background)
padding_none(background) == R0

padding(background) == IF has_bkg(background) THEN R1 ELSE R0

bkg_slice(background, out_c) ==
    IF has_bkg(background) THEN background[1] ELSE zeros1(out_c)

\* (variant: the last column excluded)
in_range_x_strict(x, data_w, pad) ==
    RLe(RNeg(pad), x) /\ RLt(x, RAdd(RSub(I2R(data_w), R1), pad))

in_range_x(x, data_w, pad) ==
    RLe(RNeg(pad), x) /\ RLe(x, RAdd(RSub(I2R(data_w), R1), pad))

in_range_y(y, data_h, pad) ==
    RLe(RNeg(pad), y) /\ RLe(y, RAdd(RSub(I2R(data_h), R1), pad))

get_pix_or_bkg(x, y, data, ddim, bkg) ==
    IF RLt(x, R0) \/ ~RLt(x, I2R(ddim[2])) \/ RLt(y, R0) \/ ~RLt(y, I2R(ddim[1]))
    THEN bkg
    ELSE data[R2I(y) * ddim[2] + R2I(x) + 1]

\* the bilinear interpolation at (x, y): one value per channel that all four
\* corner slices have (multizip stops with the shortest)
bilinear(x, y, data, ddim, bkg) ==
    LET left   == RFloor(x)
        right  == RAdd(left, R1)
        top    == RFloor(y)
        bottom == RAdd(top, R1)
        right_weight  == RSub(x, left)
        left_weight   == RSub(R1, right_weight)
        bottom_weight == RSub(y, top)
        top_weight    == RSub(R1, bottom_weight)
        tl == get_pix_or_bkg(left, top, data, ddim, bkg)
        tr == get_pix_or_bkg(right, top, data, ddim, bkg)
        bl == get_pix_or_bkg(left, bottom, data, ddim, bkg)
        br == get_pix_or_bkg(right, bottom, data, ddim, bkg)
        n  == Min(Min(Len(tl), Len(tr)), Min(Len(bl), Len(br)))
    IN  SeqOf(LAMBDA ch :
            RAdd(RAdd(RAdd(RMul(RMul(top_weight, left_weight), tl[ch]),
                           RMul(RMul(top_weight, right_weight), tr[ch])),
                      RMul(RMul(bottom_weight, left_weight), bl[ch])),
                 RMul(RMul(bottom_weight, right_weight), br[ch])), n)

\* The arguments of one call, and what the call derives from them before
\* its parallel region.
Args(self, data, ddim, points, background, func) ==
    [self |-> self, data |-> data, ddim |-> ddim, points |-> points,
     background |-> background, func |-> func]

\* (variant: the grid used whether or not points are given)
points_of_grid(a, dim) == grid_points(dim[1], dim[2])

points_of(a, dim) ==
    IF a.points = NoneOpt THEN grid_points(dim[1], dim[2]) ELSE a.points[1]

\* the shortest of the four zipped iterators: out chunks, valid flags and
\* the two columns of the warped points
num_tasks(a, o, v, dim) == Min(Min(Len(o), Len(v)), Len(points_of(a, dim)))

\* (variant: every item handed the first chunk)
chunk_shared(k) == 1

\* the chunk of out the k-th zipped item holds (k counted from 1)
chunk_of(k) == k

\* self.warp_points(points), computed once before the parallel region
warpd_of(a, dim) == warp_points(a.self, points_of(a, dim))

\* (variant: an out-of-range pixel filled whether or not a background was
\* given)
pixel_task_fills(a, warpd, o, dim, k) ==
    LET x    == warpd[k][1]
        y    == warpd[k][2]
        pad  == padding(a.background)
        bkg  == bkg_slice(a.background, dim[3])
        dst  == o[chunk_of(k)]
    IN  IF ~in_range_x(x, a.ddim[2], pad) \/ ~in_range_y(y, a.ddim[1], pad)
        THEN [out_slice |-> apply_func(a.func, dst, bkg),
              valid_slice |-> FALSE]
        ELSE [out_slice |-> apply_func(a.func, dst,
                                       bilinear(x, y, a.data, a.ddim, bkg)),
              valid_slice |-> TRUE]

\* The closure run for the k-th item: the new contents of its out chunk and
\* of its valid flag.
pixel_task(a, warpd, o, dim, k) ==
    LET x    == warpd[k][1]
        y    == warpd[k][2]
        pad  == padding(a.background)
        bkg  == bkg_slice(a.background, dim[3])
        dst  == o[chunk_of(k)]
    IN  IF ~in_range_x(x, a.ddim[2], pad) \/ ~in_range_y(y, a.ddim[1], pad)
        THEN [out_slice |-> IF has_bkg(a.background)
                            THEN apply_func(a.func, dst, bkg)
                            ELSE dst,
              valid_slice |-> FALSE]
        ELSE [out_slice |-> apply_func(a.func, dst,
                                       bilinear(x, y, a.data, a.ddim, bkg)),
              valid_slice |-> TRUE]

\* the number of columns of an N x k array held as its rows (an array
\* without rows is taken to be N x 2)
ncols(rows) == IF rows = <<>> THEN 2 ELSE Len(rows[1])

\* self.mat.dot(&points.t()): ndarray's dot panics unless the lifted points
\* are N x 3; the Identity fast path multiplies nothing
warp_points_panics(self, points) ==
    self.kind # "Identity" /\ ncols(points) # 2

\* warpd.column(1) of an array with a single column
column_panics(warpd) == ncols(warpd) < 2

\* What unwinds the call before its parallel region, if anything does.
unwinds(a, dim) ==
    IF warp_array3_into_panics(dim[3], a.ddim[3]) THEN Some("channel depth")
    ELSE IF warp_points_panics(a.self, points_of(a, dim)) THEN Some("dot")
    ELSE IF column_panics(points_of(a, dim)) THEN Some("column")
    ELSE NoneOpt

\* (variant: a flag once set stays set)
run_task_sticky(a, warpd, bufs, dim, k) ==
    LET r == pixel_task(a, warpd, bufs.out, dim, k)
    IN  [out   |-> [bufs.out EXCEPT ![chunk_of(k)] = r.out_slice],
         valid |-> [bufs.valid EXCEPT ![k] = bufs.valid[k] \/ r.valid_slice]]

\* out and valid after the k-th item's closure has run
run_task(a, warpd, bufs, dim, k) ==
    LET r == pixel_task(a, warpd, bufs.out, dim, k)
    IN  [out   |-> [bufs.out EXCEPT ![chunk_of(k)] = r.out_slice],
         valid |-> [bufs.valid EXCEPT ![k] = r.valid_slice]]

\* the items k .. n in index order
RECURSIVE run_tasks(_, _, _, _, _, _)
run_tasks(a, warpd, bufs, dim, k, n) ==
    IF k > n THEN bufs
    ELSE run_tasks(a, warpd, run_task(a, warpd, bufs, dim, k), dim, k + 1, n)

\* the whole call on buffers o, v of shape dim, in one thread
warp_array3_into(a, o, v, dim) ==
    run_tasks(a, warpd_of(a, dim), [out |-> o, valid |-> v], dim, 1,
              num_tasks(a, o, v, dim))

\* Mapping::warp_array3: fresh buffers of the requested size and the
\* channel count of the data, no points, no func
warp_array3(self, data, ddim, out_size, background) ==
    LET h == out_size[1]
        w == out_size[2]
        c == ddim[3]
    IN  warp_array3_into(Args(self, data, ddim, NoneOpt, background, "assign"),
                         zeros(h, w, c), from_elem(h, w, FALSE), <<h, w, c>>)

-----------------------------------------------------------------------------
(* Results of a call: a tag and a value.                                    *)

Unit == [tag |-> "unit", val |-> <<>>]

Panicked == [tag |-> "panic", val |-> <<>>]

RetMapping(m) == [tag |-> "mapping", val |-> m]

RetMappings(ms) == [tag |-> "mappings", val |-> ms]

RetParams(p) == [tag |-> "params", val |-> p]

RetPoints(pts) == [tag |-> "points", val |-> pts]

-----------------------------------------------------------------------------
(* The bounded inputs of the Mapping operations.                            *)

\* longest list of mappings handed to accumulate and with_respect_to
MaxMaps == 3

\* longest parameter vector handed to from_params
MaxParams == 9

SelfMats ==
    { Eye3,
      shift(I2R(1), I2R(2)).mat,
      from_params(<<R0, R1, R0, R0, R0, R0, R1, R0>>).mat,
      <<I2R(2), R0, I2R(2), R0, I2R(2), I2R(4), R0, R0, I2R(2)>> }

OperandMats ==
    { shift(I2R(3), I2R(-1)).mat,
      from_params(<<R1, R0, R1, R0, R0, R0, R0, R1>>).mat }

SelfMaps == {from_matrix(m, k) : m \in SelfMats, k \in TransformationType}

OperandMaps ==
    {from_matrix(m, k) : m \in OperandMats, k \in TransformationType}

OptOperands == {NoneOpt} \cup {Some(m) : m \in OperandMaps}

RescaleMaps == SelfMaps \cup {shift(I2R(5), I2R(10))}

Scales == {I2R(2), Rat(1, 2), I2R(3), I2R(-1)}

ListMaps ==
    { identity,
      shift(I2R(1), I2R(2)),
      scale(I2R(2), I2R(3)),
      from_params(<<R0, R1, R0, R0, R1, R0>>),
      from_params(<<R0, R0, R0, R0, R0, R0, R1, R0>>),
      from_matrix(shift(I2R(2), I2R(0)).mat, "Unknown") }

MapLists == UNION {[1..n -> ListMaps] : n \in 0..MaxMaps}

\* the last one is singular
WrtMaps ==
    { identity,
      shift(I2R(1), I2R(2)),
      scale(I2R(2), I2R(3)),
      from_params(<<R0, R0, R0, R0, R0, R0, R1, R0>>),
      from_matrix(<<R1, R0, R0, R0, R0, R0, R0, R0, R1>>, "Affine") }

ParamVals == {R0, Rat(3, 2)}

ParamVecs == UNION {[1..n -> ParamVals] : n \in 0..MaxParams}

PointLists ==
    { <<<<R0, R0>>>>,
      <<<<I2R(1), I2R(2)>>, <<R0, R0>>>> }

\* matrices handed to from_matrix: the last two have a homogeneous row
\* that is not (0, 0, 1), the last one a divisor below 1e-8 at every point
PointMats ==
    SelfMats \cup { <<I2R(3), R1, I2R(4), R0, I2R(2), I2R(6), R1, R0, I2R(2)>>,
                    <<R1, R0, I2R(2), R0, R1, I2R(3), R0, R0, I2R(-1)>> }

PointMaps == {from_matrix(m, k) : m \in PointMats, k \in TransformationType}

\* most mappings handed to the interpolating operations
MaxKnots == 3

\* the last one has a matrix whose bottom-right element is 2: its full
\* parameters are those of the matrix halved, (0, 1, 0, 1, 1, 2, 0, 0)
InterpMaps ==
    { identity,
      shift(I2R(10), I2R(20)),
      from_matrix(<<I2R(2), R0, I2R(2), I2R(2), I2R(4), I2R(4), R0, R0, I2R(2)>>,
                  "Projective") }

InterpMapLists == UNION {[1..n -> InterpMaps] : n \in 0..MaxKnots}

\* x axes for n knots: 0, 1, 2, ..; 0, 1, 3, 6, ..; the first one with its
\* second and third knot swapped; the first one reversed
KnotAxes(n) ==
    { SeqOf(LAMBDA i : I2R(i - 1), n),
      SeqOf(LAMBDA i : I2R((i * (i - 1)) \div 2), n),
      SeqOf(LAMBDA i : I2R(IF i = 2 /\ n > 2 THEN 2
                           ELSE IF i = 3 THEN 1 ELSE i - 1), n),
      SeqOf(LAMBDA i : I2R(n - i), n) }

Queries == {Rat(1, 2), R0, R1, Rat(3, 2), I2R(9)}

QueryLists == {<<q>> : q \in Queries} \cup {<<R0, Rat(1, 2), R1>>}

WrtIdxs == {R0, Rat(1, 4), Rat(1, 2), R1, I2R(2)}

\* longest list of mappings and of sizes handed to maximum_extent
MaxExtents == 2

ExtentMaps ==
    { identity,
      shift(I2R(10), I2R(20)),
      scale(I2R(2), Rat(1, 2)),
      from_params(<<R0, R1, R0, R0, I2R(-3), I2R(4)>>),
      from_matrix(<<R1, R0, R0, R0, R0, R0, R0, R0, R1>>, "Affine") }

ExtentSizes == {<<100, 50>>, <<200, 30>>, <<4, 8>>}

ExtentMapLists == UNION {[1..n -> ExtentMaps] : n \in 0..MaxExtents}

ExtentSizeLists == UNION {[1..n -> ExtentSizes] : n \in 0..MaxExtents}

-----------------------------------------------------------------------------
(* The bounded inputs of the resampler.                                     *)

\* the source frames are DataH x DataW, the canvas is OutH x OutW
DataH == 2

DataW == 2

OutH == 2

OutW == 3

\* frames warped onto one canvas
MaxFrames == 2

\* the canvas of main.rs holds the weighted sum and the sum of weights
CanvasChannels == 2

DDim == <<DataH, DataW, CanvasChannels>>

\* a frame with its weight plane as second channel: constant weights ...
FrameA == SeqOf(LAMBDA p : <<I2R(p), R1>>, DataH * DataW)

\* ... and weights that vary over the frame
FrameB ==
    SeqOf(LAMBDA p : <<I2R(10 - 2 * p), I2R(1 + (p % 3))>>, DataH * DataW)

\* <<mapping, frame>>: the frame as it is, moved by half a pixel along one
\* axis or both, magnified, and moved off the canvas
Sources ==
    { <<identity, FrameA>>,
      <<shift(Rat(-1, 2), R0), FrameA>>,
      <<shift(Rat(1, 2), Rat(1, 2)), FrameB>>,
      <<scale(Rat(1, 2), Rat(1, 2)), FrameB>>,
      <<shift(I2R(5), I2R(5)), FrameB>> }

\* background and func as they are passed together
Modes ==
    { <<NoneOpt, "assign">>,
      <<Some(<<I2R(7), R1>>), "assign">>,
      <<NoneOpt, "merge">> }

OutSizes == {<<DataH, DataW>>, <<OutH, OutW>>}

-----------------------------------------------------------------------------
(* The Mapping operations as calls.  They are pure functions: a run makes  *)
(* one call on fresh arguments, and may then query the Mapping it returned. *)
(* Every call leaves the resampler's buffers alone.                         *)

Buffers == <<out, valid, odim, hist, todo>>

Fresh == call.op = "init"

Transform ==
    /\ Fresh
    /\ \E self \in SelfMaps, lhs \in OptOperands, rhs \in OptOperands :
        /\ call' = [op |-> "transform", self |-> self, lhs |-> lhs, rhs |-> rhs]
        /\ ret' = RetMapping(transform(self, lhs, rhs))
        /\ UNCHANGED Buffers

Rescale ==
    /\ Fresh
    /\ \E self \in RescaleMaps, s \in Scales :
        /\ call' = [op |-> "rescale", self |-> self, scale |-> s]
        /\ ret' = RetMapping(rescale(self, s))
        /\ UNCHANGED Buffers

Accumulate ==
    /\ Fresh
    /\ \E mappings \in MapLists :
        /\ call' = [op |-> "accumulate", mappings |-> mappings]
        /\ ret' = RetMappings(accumulate(mappings))
        /\ UNCHANGED Buffers

WithRespectTo ==
    /\ Fresh
    /\ \E mappings \in MapLists, wrt_map \in WrtMaps :
        /\ call' = [op |-> "with_respect_to", mappings |-> mappings,
                    wrt_map |-> wrt_map]
        /\ ret' = IF with_respect_to_panics(mappings, wrt_map)
                  THEN Panicked
                  ELSE RetMappings(with_respect_to(mappings, wrt_map))
        /\ UNCHANGED Buffers

FromParams ==
    /\ Fresh
    /\ \E params \in ParamVecs :
        /\ call' = [op |-> "from_params", params |-> params]
        /\ ret' = IF from_params_panics(params)
                  THEN Panicked
                  ELSE RetMapping(from_params(params))
        /\ UNCHANGED Buffers

\* get_params of the Mapping the last call returned.  A zero normalizer
\* (inf and NaN parameters in f32) is outside the model.
GetParams ==
    /\ ret.tag = "mapping"
    /\ At(ret.val.mat, 2, 2) # R0
    /\ call' = [op |-> "get_params", self |-> ret.val, prev |-> call]
    /\ ret' = IF get_params_panics(ret.val)
              THEN Panicked
              ELSE RetParams(get_params(ret.val))
    /\ UNCHANGED Buffers

\* warp_points of the Mapping the last call returned
WarpPoints ==
    /\ ret.tag = "mapping"
    /\ \E points \in PointLists :
        /\ call' = [op |-> "warp_points", self |-> ret.val, points |-> points,
                    prev |-> call]
        /\ ret' = RetPoints(warp_points(ret.val, points))
    /\ UNCHANGED Buffers

\* warp_array3 on fresh arguments; it returns the buffers it allocated
WarpArray3 ==
    /\ Fresh
    /\ \E src \in Sources, out_size \in OutSizes, mode \in Modes :
        /\ mode[2] = "assign"
        /\ call' = [op |-> "warp_array3", self |-> src[1], data |-> src[2],
                    ddim |-> DDim, out_size |-> out_size,
                    background |-> mode[1]]
        /\ ret' = [tag |-> "arrays",
                   val |-> warp_array3(src[1], src[2], DDim, out_size,
                                       mode[1])]
    /\ UNCHANGED Buffers

FromMatrix ==
    /\ Fresh
    /\ \E m \in PointMaps :
        /\ call' = [op |-> "from_matrix", mat |-> m.mat, kind |-> m.kind]
        /\ ret' = RetMapping(from_matrix(m.mat, m.kind))
    /\ UNCHANGED Buffers

InterpolateArray ==
    /\ Fresh
    /\ \E maps \in InterpMapLists, query \in QueryLists :
        \E ts \in KnotAxes(Len(maps)) :
            /\ call' = [op |-> "interpolate_array", ts |-> ts, maps |-> maps,
                        query |-> query]
            /\ ret' = IF interpolate_array_panics(ts, maps, query)
                      THEN Panicked
                      ELSE RetMappings(interpolate_array(ts, maps, query))
    /\ UNCHANGED Buffers

InterpolateScalar ==
    /\ Fresh
    /\ \E maps \in InterpMapLists, query \in Queries :
        \E ts \in KnotAxes(Len(maps)) :
            /\ call' = [op |-> "interpolate_scalar", ts |-> ts, maps |-> maps,
                        query |-> query]
            /\ ret' = IF interpolate_scalar_panics(ts, maps, query)
                      THEN Panicked
                      ELSE RetMapping(interpolate_scalar(ts, maps, query))
    /\ UNCHANGED Buffers

WithRespectToIdx ==
    /\ Fresh
    /\ \E mappings \in InterpMapLists, wrt_idx \in WrtIdxs :
        /\ call' = [op |-> "with_respect_to_idx", mappings |-> mappings,
                    wrt_idx |-> wrt_idx]
        /\ ret' = IF with_respect_to_idx_panics(mappings, wrt_idx)
                  THEN Panicked
                  ELSE RetMappings(with_respect_to_idx(mappings, wrt_idx))
    /\ UNCHANGED Buffers

AccumulateWrtIdx ==
    /\ Fresh
    /\ \E mappings \in InterpMapLists, wrt_idx \in WrtIdxs :
        /\ call' = [op |-> "accumulate_wrt_idx", mappings |-> mappings,
                    wrt_idx |-> wrt_idx]
        /\ ret' = IF accumulate_wrt_idx_panics(mappings, wrt_idx)
                  THEN Panicked
                  ELSE RetMappings(accumulate_wrt_idx(mappings, wrt_idx))
    /\ UNCHANGED Buffers

MaximumExtent ==
    /\ Fresh
    /\ \E maps \in ExtentMapLists, sizes \in ExtentSizeLists :
        /\ call' = [op |-> "maximum_extent", maps |-> maps, sizes |-> sizes]
        /\ ret' = IF maximum_extent_panics(maps, sizes)
                  THEN Panicked
                  ELSE [tag |-> "extent", val |-> maximum_extent(maps, sizes)]
    /\ UNCHANGED Buffers

InitMapping ==
    /\ call = [op |-> "init"]
    /\ ret = Unit
    /\ out = <<>>
    /\ valid = <<>>
    /\ odim = <<0, 0, 0>>
    /\ hist = <<>>
    /\ todo = {}

NextMapping ==
    \/ Transform
    \/ Rescale
    \/ Accumulate
    \/ WithRespectTo
    \/ FromParams
    \/ GetParams
    \/ WarpPoints
    \/ FromMatrix
    \/ InterpolateArray
    \/ InterpolateScalar
    \/ WithRespectToIdx
    \/ AccumulateWrtIdx
    \/ MaximumExtent
    \/ WarpArray3

SpecMapping == InitMapping /\ [][NextMapping]_vars

-----------------------------------------------------------------------------
(* The panorama loop of main.rs: one canvas, one resampler call per frame.  *)
(* A call returns only after its parallel region has ended, so it is one    *)
(* step here; SpecPar below takes the region apart.                         *)

Init ==
    /\ call = [op |-> "init"]
    /\ ret = Unit
    /\ out = zeros(OutH, OutW, CanvasChannels)
    /\ valid = from_elem(OutH, OutW, FALSE)
    /\ odim = <<OutH, OutW, CanvasChannels>>
    /\ hist = <<>>
    /\ todo = {}

WarpArray3Into ==
    /\ Len(hist) < MaxFrames
    /\ \E src \in Sources, mode \in Modes :
        LET a == Args(src[1], src[2], DDim, NoneOpt, mode[1], mode[2])
            r == warp_array3_into(a, out, valid, odim)
        IN  /\ call' = [op |-> "warp_array3_into", args |-> a,
                        out0 |-> out, valid0 |-> valid]
            /\ IF warp_array3_into_panics(odim[3], DDim[3])
               THEN ret' = Panicked /\ UNCHANGED <<out, valid, hist>>
               ELSE /\ ret' = Unit
                    /\ out' = r.out
                    /\ valid' = r.valid
                    /\ hist' = Append(hist, a)
    /\ UNCHANGED <<odim, todo>>

Next == WarpArray3Into

Spec == Init /\ [][Next]_vars

-----------------------------------------------------------------------------
(* The parallel region of one call: rayon runs the closure once per zipped  *)
(* item, on any thread and in any order.  The closure owns its out chunk    *)
(* and its valid flag (&mut) for its whole run, so one run is one step.     *)

\* the canvas before the call: new, or holding an earlier frame
NewCanvas ==
    [out |-> zeros(OutH, OutW, CanvasChannels),
     valid |-> from_elem(OutH, OutW, FALSE)]

UsedCanvas ==
    warp_array3_into(Args(identity, FrameB, DDim, NoneOpt, NoneOpt, "merge"),
                     NewCanvas.out, NewCanvas.valid,
                     <<OutH, OutW, CanvasChannels>>)

\* <<mapping, background, func, canvas>>
ParCalls ==
    { <<shift(Rat(1, 2), Rat(1, 2)), NoneOpt, "assign", UsedCanvas>>,
      <<shift(Rat(1, 2), Rat(1, 2)), Some(<<I2R(7), R1>>), "assign", NewCanvas>>,
      <<shift(Rat(-1, 2), R0), NoneOpt, "merge", UsedCanvas>>,
      <<identity, NoneOpt, "assign", UsedCanvas>> }

\* the call up to its parallel region: the points are warped, no item has run
InitPar ==
    /\ odim = <<OutH, OutW, CanvasChannels>>
    /\ \E c \in ParCalls :
        LET a == Args(c[1], FrameA, DDim, NoneOpt, c[2], c[3])
        IN  /\ call = [op |-> "warp_array3_into", args |-> a,
                       warpd |-> warpd_of(a, odim),
                       out0 |-> c[4].out, valid0 |-> c[4].valid]
            /\ out = c[4].out
            /\ valid = c[4].valid
            /\ todo = 1..num_tasks(a, c[4].out, c[4].valid, odim)
    /\ ret = Unit
    /\ hist = <<>>

RunTask ==
    \E k \in todo :
        LET r == run_task(call.args, call.warpd,
                          [out |-> out, valid |-> valid], odim, k)
        IN  /\ out' = r.out
            /\ valid' = r.valid
            /\ todo' = todo \ {k}
            /\ UNCHANGED <<call, ret, odim, hist>>

NextPar == RunTask

SpecPar == InitPar /\ [][NextPar]_vars

-----------------------------------------------------------------------------
(* One call of warp_array3_into on buffers and arguments of the caller's    *)
(* choosing: out and valid that need not agree, points of any width and     *)
(* length, any channel depth.                                               *)

\* a frame of one channel, all ones, and one deeper than MAX_CHANNELS
Ones == SeqOf(LAMBDA p : <<R1>>, 16)

Deep == <<SeqOf(LAMBDA ch : I2R(ch), MAX_CHANNELS + 1)>>

\* <<mapping, data, shape of data>>
CallData ==
    {<<src[1], src[2], DDim>> : src \in Sources}
      \cup { <<shift(Rat(-1, 2), R0), Ones, <<4, 4, 1>>>>,
             <<identity, Deep, <<1, 1, MAX_CHANNELS + 1>>>> }

CallModes == Modes \cup {<<Some(<<R0>>), "assign">>}

\* points: none; fewer rows than pixels, not in grid order; more rows than
\* pixels; three columns; one column
CallPoints ==
    { NoneOpt,
      Some(<<<<R1, R1>>, <<R0, R0>>>>),
      Some(grid_points(OutH + 1, OutW)),
      Some(<<<<R1, R0, R1>>, <<R0, R1, R1>>, <<R1, R1, R1>>>>),
      Some(<<<<R1>>, <<R0>>>>) }

\* <<out, shape of out, valid, shape of valid>>: a canvas that holds a
\* frame, with its own valid, a shorter one and a transposed one; an empty
\* one-channel canvas; a canvas deeper than MAX_CHANNELS
CallBuffers ==
    { <<UsedCanvas.out, <<OutH, OutW, CanvasChannels>>,
        UsedCanvas.valid, <<OutH, OutW>>>>,
      <<UsedCanvas.out, <<OutH, OutW, CanvasChannels>>,
        from_elem(OutH - 1, OutW, TRUE), <<OutH - 1, OutW>>>>,
      <<UsedCanvas.out, <<OutH, OutW, CanvasChannels>>,
        from_elem(OutW, OutH, TRUE), <<OutW, OutH>>>>,
      <<zeros(4, 4, 1), <<4, 4, 1>>, from_elem(4, 4, FALSE), <<4, 4>>>>,
      <<SeqOf(LAMBDA p : SeqOf(LAMBDA ch : I2R(p), MAX_CHANNELS + 1), 2),
        <<1, 2, MAX_CHANNELS + 1>>, from_elem(1, 2, TRUE), <<1, 2>>>> }

InitCall ==
    /\ \E b \in CallBuffers :
        /\ out = b[1]
        /\ odim = b[2]
        /\ valid = b[3]
        /\ call = [op |-> "init", vdim |-> b[4]]
    /\ ret = Unit
    /\ hist = <<>>
    /\ todo = {}

\* the merge closure of main.rs indexes two channels of dst and of src
CallInto ==
    /\ Fresh
    /\ \E d \in CallData, mode \in CallModes, points \in CallPoints :
        LET a == Args(d[1], d[2], d[3], points, mode[1], mode[2])
            u == unwinds(a, odim)
        IN  /\ mode[2] = "merge" => (d[3][3] >= 2 /\ odim[3] >= 2)
            /\ call' = [op |-> "warp_array3_into", args |-> a,
                        out0 |-> out, valid0 |-> valid, vdim |-> call.vdim]
            /\ IF u # NoneOpt
               THEN ret' = [tag |-> "panic", val |-> u[1]]
                    /\ UNCHANGED <<out, valid>>
               ELSE LET r == warp_array3_into(a, out, valid, odim)
                    IN  /\ ret' = Unit
                        /\ out' = r.out
                        /\ valid' = r.valid
    /\ UNCHANGED <<odim, hist, todo>>

NextCall == CallInto

SpecCall == InitCall /\ [][NextCall]_vars

-----------------------------------------------------------------------------
(* Properties of the Mapping operations, checked under SpecMapping.         *)

\* the kind an Option<Mapping> operand contributes to transform
Contributed(opt) == IF opt = NoneOpt THEN "Unknown" ELSE opt[1].kind

MaxOf3(a, b, c) ==
    IF a >= b /\ a >= c THEN a ELSE IF b >= c THEN b ELSE c

\* C1: the kind of M.transform(lhs, rhs) has the largest num_params among
\* the kinds of lhs, M and rhs (an absent operand counting as Unknown), and
\* it is Unknown only when all three of these kinds are Unknown.
C1_TransformKind ==
    call.op = "transform" =>
        LET l == Contributed(call.lhs)
            m == call.self.kind
            r == Contributed(call.rhs)
        IN  /\ num_params(ret.val.kind)
                 = MaxOf3(num_params(l), num_params(m), num_params(r))
            /\ ret.val.kind = "Unknown" =>
                 (l = "Unknown" /\ m = "Unknown" /\ r = "Unknown")

\* what a caller observes of get_params: the parameters, or the panic
GetParamsOutcome(m) ==
    IF get_params_panics(m) THEN Panicked ELSE RetParams(get_params(m))

\* C2: M.transform(None, None) is indistinguishable from M: same matrix,
\* same kind, same get_params() outcome, same warp_points() of every point.
C2_TransformNoneNone ==
    (call.op = "transform" /\ call.lhs = NoneOpt /\ call.rhs = NoneOpt) =>
        /\ ret.val.mat = call.self.mat
        /\ ret.val.kind = call.self.kind
        /\ GetParamsOutcome(ret.val) = GetParamsOutcome(call.self)
        /\ \A pts \in PointLists :
             warp_points(ret.val, pts) = warp_points(call.self, pts)

\* the mapping and the size of the i-th pair, the shorter list reused from
\* its start
PairedMap(i) == call.maps[((i - 1) % Len(call.maps)) + 1]

PairedSize(i) == call.sizes[((i - 1) % Len(call.sizes)) + 1]

NumPairs ==
    IF Len(call.maps) >= Len(call.sizes) THEN Len(call.maps) ELSE Len(call.sizes)

\* the corners of the i-th rectangle as its mapping places them
PlacedCorners(i) ==
    LET w == I2R(PairedSize(i)[1])
        h == I2R(PairedSize(i)[2])
    IN  {warp_point(inverse(PairedMap(i)), c) :
            c \in {<<R0, R0>>, <<w, R0>>, <<w, h>>, <<R0, h>>}}

UnionCorners == UNION {PlacedCorners(i) : i \in 1..NumPairs}

\* ret is the bounding box of the set pts: its size and the shift to its
\* minimum corner
IsBoundingBox(pts) ==
    \E lo \in pts :
        /\ \A p \in pts : RLe(lo[1], p[1])
        /\ \E hi \in pts :
            /\ \A p \in pts : RLe(p[1], hi[1])
            /\ \E lo2 \in pts :
                /\ \A p \in pts : RLe(lo2[2], p[2])
                /\ \E hi2 \in pts :
                    /\ \A p \in pts : RLe(p[2], hi2[2])
                    /\ ret.val[1] = <<RSub(hi[1], lo[1]),
                                      RSub(hi2[2], lo2[2])>>
                    /\ ret.val[2] = shift(lo[1], lo2[2])

IsExtentExample ==
    /\ call.op = "maximum_extent"
    /\ call.maps = <<shift(I2R(10), I2R(20))>>
    /\ call.sizes = <<<<100, 50>>, <<200, 30>>>>

\* the rectangle (0,0)-(w,h) moved by (dx, dy)
MovedRect(w, h, dx, dy) ==
    {<<I2R(dx), I2R(dy)>>, <<I2R(w + dx), I2R(dy)>>,
     <<I2R(w + dx), I2R(h + dy)>>, <<I2R(dx), I2R(h + dy)>>}

\* C11 as stated: maximum_extent pairs the lists with the shorter one
\* cycled and returns the bounding box of the paired extents with the shift
\* to its minimum corner; for [shift(10,20)] and [(100,50), (200,30)] that
\* is the box of both rectangles moved by (10, 20).
C11_ExtentAsStated ==
    /\ (call.op = "maximum_extent" /\ ret # Panicked) =>
         IsBoundingBox(UnionCorners)
    /\ IsExtentExample =>
         IsBoundingBox(MovedRect(100, 50, 10, 20) \cup MovedRect(200, 30, 10, 20))

\* C11 (amended): as stated, but a rectangle is placed by the inverse of
\* its mapping: for [shift(10,20)] and [(100,50), (200,30)] the result is
\* the box of both rectangles moved by (-10, -20), size (200, 50), offset
\* shift(-10, -20).
C11_MaximumExtent ==
    /\ (call.op = "maximum_extent" /\ ret # Panicked) =>
         IsBoundingBox(UnionCorners)
    /\ IsExtentExample =>
         /\ IsBoundingBox(MovedRect(100, 50, -10, -20)
                            \cup MovedRect(200, 30, -10, -20))
         /\ ret.val = <<<<I2R(200), I2R(50)>>, shift(I2R(-10), I2R(-20))>>

\* the example: one mapping reused for two sizes
C11_Witness ==
    /\ IsExtentExample
    /\ ret.val = <<<<I2R(200), I2R(50)>>, shift(I2R(-10), I2R(-20))>>

\* the matrix of a uniform scaling by s
Diag(s) == <<s, R0, R0, R0, s, R0, R0, R0, R1>>

IsRescaleExample ==
    /\ call.op = "warp_points"
    /\ call.prev.op = "rescale"
    /\ call.prev.self = shift(I2R(5), I2R(10))
    /\ call.prev.scale = I2R(2)
    /\ call.points = <<<<R0, R0>>>>

\* C3 as stated: M.rescale(s) has matrix scale(s,s) * M.mat * scale(1/s,1/s)
\* and the kind of M; shift(5,10).rescale(2) is Translational and warps
\* (0,0) to (10,20).
C3_RescaleAsStated ==
    /\ call.op = "rescale" =>
         /\ ret.val.mat = Dot(Dot(Diag(call.scale), call.self.mat),
                              Diag(RDiv(R1, call.scale)))
         /\ ret.val.kind = call.self.kind
    /\ IsRescaleExample =>
         /\ call.self.kind = "Translational"
         /\ ret.val = <<<<I2R(10), I2R(20)>>>>

\* C3 (amended): M.rescale(s) has matrix scale(1/s,1/s) * M.mat * scale(s,s)
\* and the kind of M; shift(5,10).rescale(2) is Translational and warps
\* (0,0) to (5/2, 5).
C3_Rescale ==
    /\ call.op = "rescale" =>
         /\ ret.val.mat = Dot(Dot(Diag(RDiv(R1, call.scale)), call.self.mat),
                              Diag(call.scale))
         /\ ret.val.kind = call.self.kind
    /\ IsRescaleExample =>
         /\ call.self.kind = "Translational"
         /\ ret.val = <<<<Rat(5, 2), I2R(5)>>>>

C3_Witness ==
    /\ IsRescaleExample
    /\ call.self.kind = "Translational"
    /\ ret.val = <<<<Rat(5, 2), I2R(5)>>>>

\* the left-to-right product of the matrices of the first k mappings
RECURSIVE Product(_, _)
Product(ms, k) == IF k = 0 THEN Eye3 ELSE Dot(Product(ms, k - 1), ms[k].mat)

\* C4: accumulate(maps) has length n+1, element 0 is the identity matrix with
\* kind Identity, element k has matrix maps[0] * ... * maps[k-1], and
\* accumulate([]) is exactly [identity].
C4_Accumulate ==
    call.op = "accumulate" =>
        LET ms == call.mappings
            n  == Len(ms)
        IN  /\ ret.tag = "mappings"
            /\ Len(ret.val) = n + 1
            /\ ret.val[1] = [mat |-> Eye3, kind |-> "Identity"]
            /\ \A k \in 1..n : ret.val[k + 1].mat = Product(ms, k)
            /\ n = 0 => ret.val = <<[mat |-> Eye3, kind |-> "Identity"]>>

\* a list of three mappings whose product depends on the order
C4_Witness ==
    /\ call.op = "accumulate"
    /\ Len(call.mappings) = 3
    /\ Len(ret.val) = 4
    /\ ret.val[3].mat = Dot(call.mappings[1].mat, call.mappings[2].mat)
    /\ ret.val[3].mat # Dot(call.mappings[2].mat, call.mappings[1].mat)
    /\ ret.val[4].mat # ret.val[3].mat

KindOfLength(n) ==
    CASE n = 0 -> "Identity"
      [] n = 2 -> "Translational"
      [] n = 6 -> "Affine"
      [] n = 8 -> "Projective"

C10_WithRespectTo ==
    (call.op = "with_respect_to" /\ Invertible(call.wrt_map.mat)) =>
        LET ms  == call.mappings
            wrt == call.wrt_map.mat
        IN  /\ ret.tag = "mappings"
            /\ Len(ret.val) = Len(ms)
            /\ \A i \in 1..Len(ms) :
                 /\ ret.val[i].mat = Dot(Inv(wrt), ms[i].mat)
                 /\ Dot(wrt, ret.val[i].mat) = ms[i].mat
                 /\ ms[i].mat = wrt => ret.val[i].mat = Eye3

\* a list holding wrt itself next to a mapping that does not commute with it
C10_Witness ==
    /\ call.op = "with_respect_to"
    /\ Invertible(call.wrt_map.mat)
    /\ Len(call.mappings) = 2
    /\ call.mappings[1].mat = call.wrt_map.mat
    /\ call.wrt_map.mat # Eye3
    /\ ret.val[1].mat = Eye3
    /\ ret.val[2].mat # Dot(call.mappings[2].mat, Inv(call.wrt_map.mat))

-----------------------------------------------------------------------------
(* Properties of the resampler, checked under Spec, SpecMapping (the        *)
(* wrapper warp_array3) and SpecPar.                                        *)

Pixels == 1..(odim[1] * odim[2])

\* the source coordinate of destination pixel k (row-major, from 1) under
\* the mapping of a call with arguments a
SourceCoord(a, k) ==
    warp_point(a.self, <<I2R((k - 1) % odim[2]), I2R((k - 1) \div odim[2])>>)

\* -pad <= x <= Ws - 1 + pad and -pad <= y <= Hs - 1 + pad
InPaddedRange(pt, ddim, pad) ==
    /\ RLe(I2R(-pad), pt[1]) /\ RLe(pt[1], I2R(ddim[2] - 1 + pad))
    /\ RLe(I2R(-pad), pt[2]) /\ RLe(pt[2], I2R(ddim[1] - 1 + pad))

PadOf(a) == IF a.background = NoneOpt THEN 0 ELSE 1

InRangeOf(a, k) == InPaddedRange(SourceCoord(a, k), a.ddim, PadOf(a))

\* C5: after one call of warp_array3_into every destination pixel whose
\* warped coordinate is in the padded range has its valid flag set; without
\* a background, every pixel out of that range has its flag cleared and its
\* out slice as it was before the call.
C5_ValidAndUntouched ==
    (call.op = "warp_array3_into" /\ ret = Unit) =>
        \A k \in Pixels :
            /\ InRangeOf(call.args, k) => valid[k] = TRUE
            /\ (~InRangeOf(call.args, k) /\ call.args.background = NoneOpt) =>
                 (valid[k] = FALSE /\ out[k] = call.out0[k])

\* a call without background on a canvas that already held a frame: one
\* pixel in range, one out of range that keeps what the earlier frame left
C5_Witness ==
    /\ call.op = "warp_array3_into"
    /\ call.args.background = NoneOpt
    /\ \E k \in Pixels : InRangeOf(call.args, k) /\ valid[k]
    /\ \E k \in Pixels :
         /\ ~InRangeOf(call.args, k)
         /\ call.valid0[k]
         /\ call.out0[k] # <<R0, R0>>
         /\ out[k] = call.out0[k]
         /\ ~valid[k]

\* C6: warp_array3 with the identity mapping, no background and the output
\* shape of the data returns out equal to the data and every valid flag
\* set, the last row and the last column included.
C6_IdentityResample ==
    ( /\ call.op = "warp_array3"
      /\ call.self = identity
      /\ call.background = NoneOpt
      /\ call.out_size = <<call.ddim[1], call.ddim[2]>> ) =>
        /\ ret.tag = "arrays"
        /\ ret.val.out = call.data
        /\ Len(ret.val.valid) = call.ddim[1] * call.ddim[2]
        /\ \A k \in 1..Len(ret.val.valid) : ret.val.valid[k] = TRUE

C6_Witness ==
    /\ call.op = "warp_array3"
    /\ call.self = identity
    /\ call.background = NoneOpt
    /\ call.out_size = <<call.ddim[1], call.ddim[2]>>
    /\ ret.val.out = FrameA
    /\ ret.val.valid[Len(ret.val.valid)] = TRUE
    /\ ret.val.out[Len(ret.val.out)] # <<R0, R0>>

\* every call so far was one of the panorama loop: merge, no background
IsPanorama ==
    \A i \in 1..Len(hist) :
        hist[i].func = "merge" /\ hist[i].background = NoneOpt

\* what frame i samples at pixel k: <<value, weight>>, the corners beyond
\* the frame counting as zero
SampleOf(i, k) ==
    LET pt == SourceCoord(hist[i], k)
    IN  bilinear(pt[1], pt[2], hist[i].data, hist[i].ddim, <<R0, R0>>)

Contributes(i, k) == InPaddedRange(SourceCoord(hist[i], k), hist[i].ddim, 0)

\* over the frames 1..i in range at k: the sum of value * weight, and the
\* sum of weight
RECURSIVE SumValueWeight(_, _)
SumValueWeight(i, k) ==
    IF i = 0 THEN R0
    ELSE RAdd(SumValueWeight(i - 1, k),
              IF Contributes(i, k)
              THEN RMul(SampleOf(i, k)[1], SampleOf(i, k)[2])
              ELSE R0)

RECURSIVE SumWeight(_, _)
SumWeight(i, k) ==
    IF i = 0 THEN R0
    ELSE RAdd(SumWeight(i - 1, k),
              IF Contributes(i, k) THEN SampleOf(i, k)[2] ELSE R0)

\* C7: after the frames of a panorama, canvas[k,1] is the sum of the sampled
\* weights of exactly the frames in range at k and canvas[k,0] the sum of
\* their sampled value times weight; in range of no frame, k stays (0, 0);
\* where canvas[k,1] > 0 the quotient is the weighted average.
C7_PanoramaSums ==
    IsPanorama =>
        \A k \in Pixels :
            /\ out[k][2] = SumWeight(Len(hist), k)
            /\ out[k][1] = SumValueWeight(Len(hist), k)
            /\ (\A i \in 1..Len(hist) : ~Contributes(i, k)) =>
                 out[k] = <<R0, R0>>
            /\ RLt(R0, out[k][2]) =>
                 RDiv(out[k][1], out[k][2])
                   = RDiv(SumValueWeight(Len(hist), k),
                          SumWeight(Len(hist), k))

\* two frames: a pixel both reach, a pixel neither reaches
C7_Witness ==
    /\ IsPanorama
    /\ Len(hist) = 2
    /\ hist[1] # hist[2]
    /\ \E k \in Pixels :
         /\ Contributes(1, k) /\ Contributes(2, k)
         /\ RLt(SampleOf(1, k)[2], out[k][2])
         /\ RLt(SampleOf(2, k)[2], out[k][2])
    /\ \E k \in Pixels :
         /\ ~Contributes(1, k) /\ ~Contributes(2, k)
         /\ out[k] = <<R0, R0>>

\* the call of the parallel region, run in one thread in index order
Sequential == warp_array3_into(call.args, call.out0, call.valid0, odim)

\* C8: whatever items have run and in whatever order, an item that has run
\* left in its out chunk and its valid flag what the sequential pass leaves
\* there, an item that has not run still has what the call was given, and
\* the finished region equals the sequential pass.
C8_OrderIndependent ==
    LET seq == Sequential
    IN  /\ \A k \in Pixels \ todo :
             out[k] = seq.out[k] /\ valid[k] = seq.valid[k]
        /\ \A k \in todo :
             out[k] = call.out0[k] /\ valid[k] = call.valid0[k]
        /\ todo = {} => (out = seq.out /\ valid = seq.valid)

\* every item but the first has run, which no pass in index order does
C8_Witness ==
    /\ todo = {1}
    /\ \E k \in Pixels \ {1} : out[k] # call.out0[k]
    /\ \E k \in Pixels \ {1} : out[k] = call.out0[k] /\ ~valid[k]
    /\ out[1] # Sequential.out[1]

-----------------------------------------------------------------------------
(* Properties of one call on buffers of the caller's choosing, checked      *)
(* under SpecCall.                                                          *)

IsCall == call.op = "warp_array3_into"

\* out and valid agree on (H, W) and the points, if given, are N x 2
ShapesAgree == call.vdim = <<odim[1], odim[2]>>

PointsAreNx2 ==
    call.args.points = NoneOpt \/ ncols(call.args.points[1]) = 2

\* the point paired with the k-th pixel of out in row-major order: the
\* k-th row of points, or the pixel's own (x, y) when there are none
PairedPoint(k) ==
    IF call.args.points = NoneOpt
    THEN <<I2R((k - 1) % odim[2]), I2R((k - 1) \div odim[2])>>
    ELSE call.args.points[1][k]

NumPoints ==
    IF call.args.points = NoneOpt THEN odim[1] * odim[2]
    ELSE Len(call.args.points[1])

\* min(N, Ho * Wo)
NumProcessed == Min(NumPoints, odim[1] * odim[2])

PairedCoord(k) == warp_point(call.args.self, PairedPoint(k))

\* the source pixel at integer (cx, cy), or the background outside
\* [0, Ws) x [0, Hs)
CornerOrBkg(cx, cy) ==
    IF cx \in 0..(call.args.ddim[2] - 1) /\ cy \in 0..(call.args.ddim[1] - 1)
    THEN call.args.data[cy * call.args.ddim[2] + cx + 1]
    ELSE call.args.background[1]

\* channel ch of the bilinear blend at pt of the four corners around it
Blend(pt, ch) ==
    LET fx == pt[1][1] \div pt[1][2]
        fy == pt[2][1] \div pt[2][2]
        ax == RSub(pt[1], I2R(fx))
        ay == RSub(pt[2], I2R(fy))
        bx == RSub(R1, ax)
        by == RSub(R1, ay)
    IN  RAdd(RAdd(RMul(RMul(bx, by), CornerOrBkg(fx, fy)[ch]),
                  RMul(RMul(ax, by), CornerOrBkg(fx + 1, fy)[ch])),
             RAdd(RMul(RMul(bx, ay), CornerOrBkg(fx, fy + 1)[ch]),
                  RMul(RMul(ax, ay), CornerOrBkg(fx + 1, fy + 1)[ch])))

IsSofteningExample ==
    /\ IsCall
    /\ call.args.data = Ones
    /\ call.args.ddim = <<4, 4, 1>>
    /\ call.args.self = shift(Rat(-1, 2), R0)
    /\ call.args.background = Some(<<R0>>)
    /\ call.args.points = NoneOpt
    /\ call.args.func = "assign"
    /\ odim = <<4, 4, 1>>

\* C12: with a background, a pixel whose warped coordinate is within the
\* range padded by one pixel gets the bilinear blend of its four corners,
\* every corner outside the source replaced by the background, and its valid
\* flag set; 4x4x1 ones moved by (-0.5, 0) over background [0] give 0.5 and
\* valid at every destination (0, y).
C12_BackgroundSoftening ==
    /\ ( /\ IsCall /\ ret = Unit /\ ShapesAgree /\ PointsAreNx2
         /\ call.args.background # NoneOpt
         /\ call.args.func = "assign" ) =>
           \A k \in 1..NumProcessed :
               InPaddedRange(PairedCoord(k), call.args.ddim, 1) =>
                   /\ valid[k] = TRUE
                   /\ \A ch \in 1..Min(Min(odim[3], call.args.ddim[3]),
                                        Len(call.args.background[1])) :
                         out[k][ch] = Blend(PairedCoord(k), ch)
    /\ IsSofteningExample =>
           \A y \in 0..3 :
               out[4 * y + 1] = <<Rat(1, 2)>> /\ valid[4 * y + 1] = TRUE

\* the example, and the band is what admits the pixel
C12_Witness ==
    /\ IsSofteningExample
    /\ ret = Unit
    /\ \A y \in 0..3 :
         /\ out[4 * y + 1] = <<Rat(1, 2)>>
         /\ valid[4 * y + 1] = TRUE
         /\ ~InPaddedRange(PairedCoord(4 * y + 1), call.args.ddim, 0)
         /\ out[4 * y + 2] = <<R1>>

IsChannelPanic == ret = [tag |-> "panic", val |-> "channel depth"]

\* C13: a source or an output of more than 8 channels makes the call fail
\* with the channel-depth error before any element of out or valid is
\* written; with at most 8 channels on both sides that check never fails.
C13_ChannelDepth ==
    IsCall =>
        /\ (call.args.ddim[3] > 8 \/ odim[3] > 8) =>
              (IsChannelPanic /\ out = call.out0 /\ valid = call.valid0)
        /\ (call.args.ddim[3] <= 8 /\ odim[3] <= 8) => ~IsChannelPanic

\* nine channels of data onto a two-channel canvas that holds a frame:
\* nothing of the canvas was written
C13_Witness ==
    /\ IsCall
    /\ call.args.ddim[3] = 9
    /\ odim[3] = 2
    /\ IsChannelPanic
    /\ out = call.out0 /\ valid = call.valid0
    /\ out[1] # call.args.data[1]
    /\ \E k \in 1..Len(valid) : valid[k] = FALSE

\* C14: when out and valid disagree on (H, W), or the points are not N x 2,
\* the call reports an error and writes no pixel of out and no flag of
\* valid; it does not go on with a prefix of the pixels.
C14_ShapeMismatch ==
    (IsCall /\ (~ShapesAgree \/ ~PointsAreNx2)) =>
        /\ ret.tag = "panic"
        /\ out = call.out0
        /\ valid = call.valid0

\* what the closure leaves in pixel k when it samples at the warped k-th
\* point: <<out slice, valid flag>>
Sampled(k) ==
    LET pt  == PairedCoord(k)
        a   == call.args
        bkg == bkg_slice(a.background, odim[3])
    IN  IF InPaddedRange(pt, a.ddim, PadOf(a))
        THEN <<apply_func(a.func, call.out0[k],
                          bilinear(pt[1], pt[2], a.data, a.ddim, bkg)), TRUE>>
        ELSE <<IF a.background = NoneOpt THEN call.out0[k]
               ELSE apply_func(a.func, call.out0[k], bkg), FALSE>>

\* C19: with a points array of N rows the k-th point is paired with the
\* k-th pixel of out in row-major order, exactly min(N, Ho*Wo) pixels are
\* processed, and every out pixel and valid flag of index >= N is left as
\* it was.
C19_PointsPairing ==
    ( /\ IsCall /\ ret = Unit /\ ShapesAgree
      /\ call.args.points # NoneOpt /\ PointsAreNx2 ) =>
        /\ \A k \in 1..NumProcessed :
              out[k] = Sampled(k)[1] /\ valid[k] = Sampled(k)[2]
        /\ \A k \in (NumProcessed + 1)..(odim[1] * odim[2]) :
              out[k] = call.out0[k] /\ valid[k] = call.valid0[k]
        /\ Len(out) = Len(call.out0) /\ Len(valid) = Len(call.valid0)

\* two points, not the coordinates of the pixels they are paired with: the
\* first pixel holds the sample at (1, 1), the third is as it was
C19_Witness ==
    /\ IsCall /\ ret = Unit /\ ShapesAgree
    /\ call.args.points = Some(<<<<R1, R1>>, <<R0, R0>>>>)
    /\ call.args.self = identity
    /\ call.args.func = "assign"
    /\ call.args.data = FrameA
    /\ out[1] = FrameA[4] /\ out[2] = FrameA[1]
    /\ out[1] # call.out0[1]
    /\ out[4] = call.out0[4] /\ out[4] # FrameA[3]
    /\ valid[4] = call.valid0[4]

-----------------------------------------------------------------------------
(* The valid mask over the calls of the panorama loop, checked under Spec.  *)

LastCall == hist[Len(hist)]

\* C18: after any sequence of calls on one out/valid pair, valid[k] is true
\* exactly when pixel k was in range in the last call; a pixel an earlier
\* frame contributed to and the last frame (without background) does not
\* reach has its flag cleared while out[k] keeps the earlier contribution.
C18_ValidOverwritten ==
    Len(hist) >= 1 =>
        \A k \in Pixels :
            /\ valid[k] = InRangeOf(LastCall, k)
            /\ (~InRangeOf(LastCall, k) /\ LastCall.background = NoneOpt) =>
                 out[k] = call.out0[k]

\* two frames merged: a pixel only the first reaches
C18_Witness ==
    /\ Len(hist) = 2
    /\ IsPanorama
    /\ \E k \in Pixels :
         /\ Contributes(1, k)
         /\ ~Contributes(2, k)
         /\ RLt(R0, out[k][2])
         /\ out[k] = <<RMul(SampleOf(1, k)[1], SampleOf(1, k)[2]),
                       SampleOf(1, k)[2]>>
         /\ valid[k] = FALSE

-----------------------------------------------------------------------------
(* Further properties of the Mapping operations, checked under SpecMapping. *)

\* C15: from_params fails on a vector whose length is not 0, 2, 6 or 8 and
\* produces no Mapping; on each of these lengths it returns a Mapping whose
\* matrix is 3x3 with bottom-right element 1.
C15_FromParamsLength ==
    call.op = "from_params" =>
        IF Len(call.params) \in {0, 2, 6, 8}
        THEN /\ ret.tag = "mapping"
             /\ Len(ret.val.mat) = 9
             /\ ret.val.mat[9] = R1
        ELSE ret = Panicked

\* a vector one short of a projective one is refused
C15_Witness ==
    /\ call.op = "from_params"
    /\ Len(call.params) = 7
    /\ ret = Panicked

\* the homogeneous image of pt under mat: <<X, Y, W>>
Lifted(mat, pt) ==
    <<RAdd(RAdd(RMul(mat[1], pt[1]), RMul(mat[2], pt[2])), mat[3]),
      RAdd(RAdd(RMul(mat[4], pt[1]), RMul(mat[5], pt[2])), mat[6]),
      RAdd(RAdd(RMul(mat[7], pt[1]), RMul(mat[8], pt[2])), mat[9])>>

\* q is <<X/d, Y/d>> for d = max(W, 1e-8)
IsProjection(q, h) ==
    LET d == IF RLe(Epsilon, h[3]) THEN h[3] ELSE Epsilon
    IN  RMul(q[1], d) = h[1] /\ RMul(q[2], d) = h[2]

\* C17: for a kind other than Identity warp_points maps each point (x, y)
\* to (X/d, Y/d), (X, Y, W) = mat * (x, y, 1), d = max(W, 1e-8), keeping the
\* number and the order of the points, so that (0, 0) goes to
\* (mat[0][2]/mat[2][2], mat[1][2]/mat[2][2]) where mat[2][2] >= 1e-8; for
\* the kind Identity it returns the points as they are, whatever the matrix.
C17_WarpPoints ==
    call.op = "warp_points" =>
        /\ ret.tag = "points"
        /\ Len(ret.val) = Len(call.points)
        /\ \A i \in 1..Len(call.points) :
              IF call.self.kind = "Identity"
              THEN ret.val[i] = call.points[i]
              ELSE /\ IsProjection(ret.val[i],
                                   Lifted(call.self.mat, call.points[i]))
                   /\ ( /\ call.points[i] = <<R0, R0>>
                        /\ RLe(Epsilon, call.self.mat[9]) ) =>
                          ret.val[i] = <<RDiv(call.self.mat[3], call.self.mat[9]),
                                         RDiv(call.self.mat[6], call.self.mat[9])>>

\* a projective matrix whose corner is not 1, at two points one of which is
\* the origin
C17_Witness ==
    /\ call.op = "warp_points"
    /\ call.prev.op = "from_matrix"
    /\ call.self.kind = "Projective"
    /\ call.self.mat = <<I2R(3), R1, I2R(4), R0, I2R(2), I2R(6), R1, R0, I2R(2)>>
    /\ call.points = <<<<I2R(1), I2R(2)>>, <<R0, R0>>>>
    /\ ret.val = <<<<I2R(3), Rat(10, 3)>>, <<I2R(2), I2R(3)>>>>

-----------------------------------------------------------------------------
(* Properties of the interpolating operations, under SpecMapping.           *)

IsInterp == call.op \in {"interpolate_array", "interpolate_scalar"}

QueriesOf(c) == IF c.op = "interpolate_scalar" THEN <<c.query>> ELSE c.query

ResultsOf(c, r) == IF c.op = "interpolate_scalar" THEN <<r.val>> ELSE r.val

Monotonic(ts) ==
    \/ \A i \in 1..(Len(ts) - 1) : RLe(ts[i], ts[i + 1])
    \/ \A i \in 1..(Len(ts) - 1) : RLe(ts[i + 1], ts[i])

InsideAxis(ts, qs) ==
    \A j \in 1..Len(qs) : RLe(ts[1], qs[j]) /\ RLe(qs[j], ts[Len(ts)])

\* the point at q of the straight line through (t0, y0) and (t1, y1)
Chord(t0, y0, t1, y1, q) ==
    RAdd(y0, RMul(RDiv(RSub(q, t0), RSub(t1, t0)), RSub(y1, y0)))

\* The natural cubic spline through three knots, in closed form: its only
\* second derivative that is not zero is the one at the middle knot,
\* 3 * (slope right - slope left) / (t3 - t1), and on either interval the
\* spline is the chord plus m * d * (d^2 - h^2) / (6 h), d being the
\* distance of q from the outer knot and h the interval's length.
Spline3(ts, ys, q) ==
    LET m  == RDiv(RMul(I2R(3),
                        RSub(RDiv(RSub(ys[3], ys[2]), RSub(ts[3], ts[2])),
                             RDiv(RSub(ys[2], ys[1]), RSub(ts[2], ts[1])))),
                   RSub(ts[3], ts[1]))
        i  == IF RLt(q, ts[2]) THEN 1 ELSE 2
        h  == RSub(ts[i + 1], ts[i])
        d  == IF i = 1 THEN RSub(q, ts[1]) ELSE RSub(ts[3], q)
    IN  RAdd(Chord(ts[i], ys[i], ts[i + 1], ys[i + 1], q),
             RDiv(RMul(m, RMul(d, RSub(RMul(d, d), RMul(h, h)))),
                  RMul(I2R(6), h)))

IsLinearExample(c) ==
    /\ c.op = "interpolate_scalar"
    /\ c.ts = <<R0, R1>>
    /\ c.maps = <<identity, shift(I2R(10), I2R(20))>>
    /\ c.query = Rat(1, 2)

C16_SplineReached ==
    /\ call.op = "interpolate_scalar"
    /\ Len(call.maps) = 3
    /\ ret # Panicked
    /\ call.query = Rat(1, 2)
    /\ get_params_full(ret.val)[5]
         # Chord(call.ts[1], get_params_full(call.maps[1])[5],
                 call.ts[2], get_params_full(call.maps[2])[5], call.query)

\* the element that sits on a knot of linspace(0, 1, n) at q is mapped to
\* the identity, up to the scale of its matrix
KnotIsIdentity(res, q) ==
    \A i \in 1..Len(res) :
        (Len(res) >= 2 /\ q = Rat(i - 1, Len(res) - 1))
            => Normalized(res[i].mat) = Eye3

\* C20: with_respect_to_idx and accumulate_wrt_idx interpolate over the
\* knots linspace(0, 1, len), so they return only when the (accumulated)
\* list has at least two mappings: with_respect_to_idx of no or one
\* mapping and accumulate_wrt_idx of no mapping panic, although
\* accumulate of no mapping returns [identity]; when accumulate_wrt_idx
\* returns, its result is with_respect_to_idx of the accumulated list,
\* which returns as well, and has one element more than the input; the
\* element on a knot at wrt_idx becomes the identity.
C20_WrtIdx ==
    /\ call.op = "with_respect_to_idx" =>
        /\ Len(call.mappings) < 2 => ret = Panicked
        /\ ret # Panicked =>
            /\ Len(ret.val) = Len(call.mappings)
            /\ KnotIsIdentity(ret.val, call.wrt_idx)
    /\ call.op = "accumulate_wrt_idx" =>
        /\ call.mappings = <<>> => ret = Panicked
        /\ ret # Panicked =>
            LET acc == accumulate(call.mappings)
            IN  /\ Len(acc) >= 2
                /\ ~with_respect_to_idx_panics(acc, call.wrt_idx)
                /\ ret.val = with_respect_to_idx(acc, call.wrt_idx)
                /\ Len(ret.val) = Len(call.mappings) + 1
                /\ KnotIsIdentity(ret.val, call.wrt_idx)
    /\ (call.op = "accumulate" /\ call.mappings = <<>>)
            => ret = RetMappings(<<identity>>)

\* accumulate_wrt_idx of two mappings has returned three, the middle one,
\* on the knot 1/2, the identity and the others not
C20_Witness ==
    /\ call.op = "accumulate_wrt_idx"
    /\ Len(call.mappings) = 2
    /\ call.wrt_idx = Rat(1, 2)
    /\ ret # Panicked
    /\ Len(ret.val) = 3
    /\ Normalized(ret.val[2].mat) = Eye3
    /\ Normalized(ret.val[1].mat) # Eye3
    /\ Normalized(ret.val[3].mat) # Eye3


=============================================================================
